---- MODULE Spec2Model ----
(***************************************************************************)
(* unicode-linebreak: the build-time table compiler (build.rs) and the     *)
(* runtime scanner (src/lib.rs), as a state machine.                       *)
(*                                                                         *)
(*   - the pair table is computed from the rule list exactly as the macro  *)
(*     rules2pair_table! expands it;                                       *)
(*   - the paged property table is built from ranged records and looked up *)
(*     by break_property;                                                  *)
(*   - linebreaks is the iterator chain char_indices -> map -> chain(once) *)
(*     -> scan -> filter_map, one action per element pulled through it.    *)
(***************************************************************************)
EXTENDS Integers, Sequences, FiniteSets, TLC

(***************************************************************************)
(* Break classes: lb_class_by_key (build.rs) / enum BreakClass (lib.rs).   *)
(* IN is a reserved word of TLA+, so Inseparable is IN_.                   *)
(***************************************************************************)
BK == 0
CR == 1
LF == 2
CM == 3
NL == 4
SG == 5
WJ == 6
ZW == 7
GL == 8
SP == 9
ZWJ == 10
B2 == 11
BA == 12
BB == 13
HY == 14
CB == 15
CL == 16
CP == 17
EX == 18
IN_ == 19
NS == 20
OP == 21
QU == 22
IS == 23
NU == 24
PO == 25
PR == 26
SY == 27
AI == 28
AL == 29
CJ == 30
EB == 31
EM == 32
H2 == 33
H3 == 34
HL == 35
ID == 36
JL == 37
JV == 38
JT == 39
RI == 40
SA == 41
XX == 42

NUM_CLASSES == 43
UNIFORM_PAGE == 32768
ALLOWED_BREAK_BIT == 128
MANDATORY_BREAK_BIT == 64
NUM_STATES == NUM_CLASSES + 1
\* Mutation: the count not raised when the last extra state was added.
NUM_EXTRA_STATES_Stale == 10 - 1

NUM_EXTRA_STATES == 10

\* EXTRA_STATES, numbered by state_by_key: NUM_CLASSES + position.
EXTRA_STATES == <<"eot", "sot", "ZWSP", "OPSP", "QUSP", "CLSP", "CPSP", "B2SP", "HLHYBA", "RIRI">>

state_by_key(k) == NUM_CLASSES + (CHOOSE i \in 1..Len(EXTRA_STATES) : EXTRA_STATES[i] = k) - 1

eot == state_by_key("eot")
sot == state_by_key("sot")
ZWSP == state_by_key("ZWSP")
OPSP == state_by_key("OPSP")
QUSP == state_by_key("QUSP")
CLSP == state_by_key("CLSP")
CPSP == state_by_key("CPSP")
B2SP == state_by_key("B2SP")
HLHYBA == state_by_key("HLHYBA")
RIRI == state_by_key("RIRI")

\* SOT and EOT as emitted into tables.rs.
SOT == state_by_key("sot")
EOT == state_by_key("eot")

(***************************************************************************)
(* u8 bit operations on a cell of the pair table.                          *)
(***************************************************************************)
HasBit(v, b) == (v \div b) % 2 = 1

OrBit(v, b) == IF HasBit(v, b) THEN v ELSE v + b

\* val & !(ALLOWED_BREAK_BIT | MANDATORY_BREAK_BIT)
ClearBreakBits(v) == v % MANDATORY_BREAK_BIT

(***************************************************************************)
(* The rule list of main, in declared order.  A rule is one of             *)
(*   op      : [first] operator [second]                                   *)
(*   treat_x : Treat X (second)* as if it were X where X = [X]             *)
(*   pair    : Treat [first] [second] as if it were cls                    *)
(*   treat   : Treat [first] as if it were cls                             *)
(***************************************************************************)
\* pair_table.len()
Rows == 0 .. (NUM_CLASSES + NUM_EXTRA_STATES - 1)

\* 0..NUM_STATES
Cols == 0 .. (NUM_STATES - 1)

\* [^ ...] in first position: $len is pair_table.len()
AllBut(excluded) == Rows \ excluded

Op(first, operator, second) == [kind |-> "op", first |-> first, operator |-> operator, second |-> second]

TreatX(second, X) == [kind |-> "treat_x", first |-> X, second |-> second]

TreatPair(first, second, cls) == [kind |-> "pair", first |-> first, second |-> second, cls |-> cls]

Treat(first, cls) == [kind |-> "treat", first |-> first, cls |-> cls]

SpaceStates == {sot, eot, ZWSP, OPSP, QUSP, CLSP, CPSP, B2SP}

Korean == {JL, JV, JT, H2, H3}

RULES ==
     \* LB1
  << Treat({AI, SG, XX, SA}, AL), Treat({CJ}, NS),
     \* LB2, LB3
     Op({sot}, "x", Cols), Op(Rows, "!", {eot}),
     \* LB4, LB5
     Op({BK}, "!", Cols),
     Op({CR}, "x", {LF}), Op({CR}, "!", Cols), Op({LF}, "!", Cols), Op({NL}, "!", Cols),
     \* LB6
     Op(Rows, "x", {BK, CR, LF, NL}),
     \* LB7
     Op(Rows, "x", {SP}), Op(Rows, "x", {ZW}),
     \* LB8
     Op({ZW, ZWSP}, "/", Cols), TreatPair({ZW, ZWSP}, {SP}, ZWSP), Treat({ZWSP}, SP),
     \* LB9, LB10
     TreatX({CM, ZWJ}, AllBut({BK, CR, LF, NL, SP, ZW} \cup SpaceStates)),
     Treat({CM, ZWJ}, AL),
     \* LB11
     Op(Rows, "x", {WJ}), Op({WJ}, "x", Cols),
     \* LB12
     Op({GL}, "x", Cols),
     \* LB12a
     Op(AllBut({SP, BA, HY} \cup SpaceStates), "x", {GL}),
     \* LB13
     Op(Rows, "x", {CL}), Op(Rows, "x", {CP}), Op(Rows, "x", {EX}), Op(Rows, "x", {IS}),
     Op(Rows, "x", {SY}),
     \* LB14
     Op({OP, OPSP}, "x", Cols), TreatPair({OP, OPSP}, {SP}, OPSP), Treat({ZWSP}, SP),
     \* LB15
     Op({QU, QUSP}, "x", {OP}), TreatPair({QU, QUSP}, {SP}, QUSP), Treat({QUSP}, SP),
     \* LB16
     Op({CL, CLSP, CP, CPSP}, "x", {NS}),
     TreatPair({CL, CLSP}, {SP}, CLSP), Treat({CLSP}, SP),
     TreatPair({CP, CPSP}, {SP}, CPSP), Treat({CPSP}, SP),
     \* LB17
     Op({B2, B2SP}, "x", {B2}), TreatPair({B2, B2SP}, {SP}, B2SP), Treat({B2SP}, SP),
     \* LB18
     Op({SP}, "/", Cols),
     \* LB19
     Op(Rows, "x", {QU}), Op({QU}, "x", Cols),
     \* LB20
     Op(Rows, "/", {CB}), Op({CB}, "/", Cols),
     \* LB21
     Op(Rows, "x", {BA}), Op(Rows, "x", {HY}), Op(Rows, "x", {NS}), Op({BB}, "x", Cols),
     \* LB21a
     Op({HLHYBA}, "x", Cols), TreatPair({HL}, {HY, BA}, HLHYBA), Treat({HLHYBA}, HY),
     \* LB21b
     Op({SY}, "x", {HL}),
     \* LB22
     Op({AL, HL}, "x", {IN_}), Op({EX}, "x", {IN_}), Op({ID, EB, EM}, "x", {IN_}),
     Op({IN_}, "x", {IN_}), Op({NU}, "x", {IN_}),
     \* LB23
     Op({AL, HL}, "x", {NU}), Op({NU}, "x", {AL, HL}),
     \* LB23a
     Op({PR}, "x", {ID, EB, EM}), Op({ID, EB, EM}, "x", {PO}),
     \* LB24
     Op({PR, PO}, "x", {AL, HL}), Op({AL, HL}, "x", {PR, PO}),
     \* LB25
     Op({CL}, "x", {PO}), Op({CP}, "x", {PO}), Op({CL}, "x", {PR}), Op({CP}, "x", {PR}),
     Op({NU}, "x", {PO}), Op({NU}, "x", {PR}), Op({PO}, "x", {OP}), Op({PO}, "x", {NU}),
     Op({PR}, "x", {OP}), Op({PR}, "x", {NU}), Op({HY}, "x", {NU}), Op({IS}, "x", {NU}),
     Op({NU}, "x", {NU}), Op({SY}, "x", {NU}),
     \* LB26
     Op({JL}, "x", {JL, JV, H2, H3}), Op({JV, H2}, "x", {JV, JT}), Op({JT, H3}, "x", {JT}),
     \* LB27
     Op(Korean, "x", {IN_}), Op(Korean, "x", {PO}), Op({PR}, "x", Korean),
     \* LB28
     Op({AL, HL}, "x", {AL, HL}),
     \* LB29
     Op({IS}, "x", {AL, HL}),
     \* LB30
     Op({AL, HL, NU}, "x", {OP}), Op({CP}, "x", {AL, HL, NU}),
     \* LB30a
     Op({RI}, "x", {RI}), TreatPair({RI}, {RI}, RIRI), Treat({RIRI}, RI),
     \* LB30b
     Op({EB}, "x", {EM}),
     \* LB31
     Op(Rows, "/", Cols), Op(Rows, "/", Cols) >>

(***************************************************************************)
(* The arms of rules2pair_table! that write the table.                     *)
(***************************************************************************)
\* Mutation: '!' sets the allowed bit only.
ApplyOperatorAllowedOnly(operator, v) ==
  CASE operator = "!" -> OrBit(v, ALLOWED_BREAK_BIT)
    [] operator = "/" -> OrBit(v, ALLOWED_BREAK_BIT)
    [] operator = "x" -> ClearBreakBits(v)

\* Mutation: '!' sets the mandatory bit alone.
ApplyOperatorMandatoryAlone(operator, v) ==
  CASE operator = "!" -> OrBit(v, MANDATORY_BREAK_BIT)
    [] operator = "/" -> OrBit(v, ALLOWED_BREAK_BIT)
    [] operator = "x" -> ClearBreakBits(v)

\* Mutation: 'x' leaves the cell as it is.
ApplyOperatorKeepBreak(operator, v) ==
  CASE operator = "!" -> OrBit(OrBit(v, ALLOWED_BREAK_BIT), MANDATORY_BREAK_BIT)
    [] operator = "/" -> OrBit(v, ALLOWED_BREAK_BIT)
    [] operator = "x" -> v

\* operator arm: '!' |= both bits, '÷' |= allowed bit, '×' clears both bits
ApplyOperator(operator, v) ==
  CASE operator = "!" -> OrBit(OrBit(v, ALLOWED_BREAK_BIT), MANDATORY_BREAK_BIT)
    [] operator = "/" -> OrBit(v, ALLOWED_BREAK_BIT)
    [] operator = "x" -> ClearBreakBits(v)

ApplyOp(r, t) ==
  [i \in Rows |-> [j \in Cols |->
     IF i \in r.first /\ j \in r.second THEN ApplyOperator(r.operator, t[i][j]) ELSE t[i][j]]]

\* Mutation: the cell leads to the row of the mark.
ApplyTreatXToMark(r, t) ==
  [i \in Rows |-> [j \in Cols |->
     IF i \in r.first /\ j \in r.second THEN j ELSE t[i][j]]]

\* treat_x arm: pair_table[i][j] = i as u8
ApplyTreatX(r, t) ==
  [i \in Rows |-> [j \in Cols |->
     IF i \in r.first /\ j \in r.second THEN i ELSE t[i][j]]]

\* Mutation: the cell leads to the row of the second class.
ApplyTreatPairToSecond(r, t) ==
  [i \in Rows |-> [j \in Cols |->
     IF i \in r.first /\ j \in r.second THEN j ELSE t[i][j]]]

\* Mutation: the cell leads back to the row it is in.
ApplyTreatPairToFirst(r, t) ==
  [i \in Rows |-> [j \in Cols |->
     IF i \in r.first /\ j \in r.second THEN i ELSE t[i][j]]]

\* treat [first] [second] arm: pair_table[i][j] = cls
ApplyTreatPair(r, t) ==
  [i \in Rows |-> [j \in Cols |->
     IF i \in r.first /\ j \in r.second THEN r.cls ELSE t[i][j]]]

\* Mutation: the rows are copied, the columns are not.
ApplyTreatRowsOnly(r, t) ==
  [i \in Rows |-> IF i \in r.first THEN t[r.cls] ELSE t[i]]

\* treat [first] arm: copy column cls into the columns of first (when both are
\* below NUM_STATES), then copy row cls into the rows of first.
ApplyTreat(r, t) ==
  LET xidx == r.cls
      c == [i \in Rows |-> [j \in Cols |->
              IF j \in r.first /\ xidx < NUM_STATES /\ j < NUM_STATES
              THEN t[i][xidx] ELSE t[i][j]]]
      row == c[xidx]
  IN  [i \in Rows |-> IF i \in r.first THEN row ELSE c[i]]

ApplyRule(r, t) ==
  CASE r.kind = "op" -> ApplyOp(r, t)
    [] r.kind = "treat_x" -> ApplyTreatX(r, t)
    [] r.kind = "pair" -> ApplyTreatPair(r, t)
    [] r.kind = "treat" -> ApplyTreat(r, t)

\* Entry point: every row starts as [0, 1, ..., 43].
InitialTable == [i \in Rows |-> [j \in Cols |-> j]]

\* Mutation: the loops run in the order in which the rules are declared.
RECURSIVE ExpandForward(_, _, _)
ExpandForward(lo, hi, t) ==
  IF lo > hi THEN t
  ELSE IF lo = hi THEN ApplyRule(RULES[lo], t)
  ELSE LET mid == (lo + hi) \div 2
           earlier == ExpandForward(lo, mid, t)
       IN  ExpandForward(mid + 1, hi, earlier)

\* Each arm first expands the rest of the rule list and only then runs its own
\* loop, so the loops run from the last declared rule back to the first:
\* Expand(lo, hi, t) runs the loops of rules hi, hi-1, ..., lo on t.
RECURSIVE Expand(_, _, _)
Expand(lo, hi, t) ==
  IF lo > hi THEN t
  ELSE IF lo = hi THEN ApplyRule(RULES[lo], t)
  ELSE LET mid == (lo + hi) \div 2
           later == Expand(mid + 1, hi, t)
       IN  Expand(lo, mid, later)

\* static PAIR_TABLE: [[u8; NUM_STATES]; NUM_CLASSES + NUM_EXTRA_STATES]
PAIR_TABLE == Expand(1, Len(RULES), InitialTable)

(***************************************************************************)
(* linebreaks (lib.rs): the iterator chain.  The text is a str: a sequence *)
(* of code points, each 1..4 bytes long (len_utf8) and of some break class *)
(* (break_property, data-dependent, so any class).  The text is consumed   *)
(* lazily, one code point per step.                                        *)
(***************************************************************************)
\* Longest text, in bytes.
MaxLen == 4

Classes == 0 .. (NUM_CLASSES - 1)

\* char::len_utf8
Utf8Widths == 1 .. 4

None == <<>>

\* LB1 as the documentation states it: SA, AI, SG and XX resolve to AL, CJ to NS.
Resolve(cls) ==
  IF cls \in {SA, AI, SG, XX} THEN AL ELSE IF cls = CJ THEN NS ELSE cls

VARIABLES
  pc,       \* "chars": char_indices not exhausted; "once": the (s.len(), EOT)
            \* element has been consumed; "done": next() returned None;
            \* "panic": an index was out of bounds
  len,      \* bytes of the text consumed so far (the offset of the next char)
  starts,   \* the start offsets of the code points consumed so far
  state,    \* the scan state (row, previous class was ZWJ)
  elem,     \* the element (i, cls) fed to the closure last
  prev,     \* the class of the element before it
  val,      \* the cell read last
  item,     \* the closure's result (i, is_break, is_mandatory)
  opp,      \* the opportunities yielded so far: how many, and the last one
  resolved, \* a second scan, in step, of the same text with some occurrences
            \* of SA, AI, SG, XX, CJ replaced by their resolved class
  s,        \* a whole text handed to linebreaks, a sequence of (class, width)
  result,   \* the collected opportunities of linebreaks(s), or None
  cut,      \* the code point of s at which a second scan starts anew, or None
  data,     \* the records of LineBreak.txt, each (start, end, class)
  build,    \* main's page loop: should_continue, the position in the value
            \* stream, page_count
  PAGE_INDICES,     \* page_indices, one entry for each page
  BREAK_PROP_DATA,  \* the pages written out, each of 256 classes
  lookup,   \* the last call of break_property: (codepoint, outcome), or None
  lines,    \* the lines of LineBreak.txt as main reads them, each a sequence
            \* of characters
  num_states,  \* NUM_CLASSES + NUM_EXTRA_STATES of the build script that runs
  tables_rs,   \* OUT_DIR/tables.rs: None while it does not exist, else what
               \* has been written to it
  exit,     \* how main ended: <<"ok">>, <<"panic">>, or None while it has not run
  iters,    \* the linebreaks iterators alive side by side, each with its text,
            \* its position in it, its own scan state and what it has yielded
  pair_table,  \* the table rules2pair_table! is filling
  rest,     \* the rule of the list the macro expands next
  pending,  \* the rules expanded whose loop has not run yet, innermost first
  ran,      \* the rules whose loop has run, in the order in which they ran
  pair,     \* a pair of classes (a, b) given to is_safe_pair
  safe,     \* the result of is_safe_pair(a, b), or None
  run       \* what the scan has read of the runs the rules remember: the row
            \* after the base of a combining run, whether an OP SP* or ZW SP*
            \* run is being read, and how many RI were read in a row

scanVars == <<pc, len, starts, state, elem, prev, val, item, opp, resolved>>

textVars == <<s, result, cut>>

tableVars ==
  <<data, build, PAGE_INDICES, BREAK_PROP_DATA, lookup, lines, num_states, tables_rs, exit>>

parVars == <<iters>>

ruleVars == <<pair_table, rest, pending, ran>>

safeVars == <<pair, safe>>

runVars == <<run>>

auxVars == <<parVars, ruleVars, safeVars, runVars>>

vars == <<scanVars, textVars, tableVars, auxVars>>

\* let val = PAIR_TABLE[state.0 as usize][cls as usize]: panics out of bounds
InBounds(row, cls) == row \in DOMAIN PAIR_TABLE /\ cls \in DOMAIN PAIR_TABLE[row]

\* Mutation: the gate without "|| is_mandatory".
ScanClosureNoMandatory(st, i, cls) ==
  LET v == PAIR_TABLE[st[1]][cls]
      is_mandatory == HasBit(v, MANDATORY_BREAK_BIT)
      is_break == HasBit(v, ALLOWED_BREAK_BIT) /\ ~st[2]
  IN  [val |-> v,
       state |-> <<ClearBreakBits(v), cls = ZWJ>>,
       item |-> <<i, is_break, is_mandatory>>]

\* Mutation: the gate without the joiner flag.
ScanClosureNoJoiner(st, i, cls) ==
  LET v == PAIR_TABLE[st[1]][cls]
      is_mandatory == HasBit(v, MANDATORY_BREAK_BIT)
      is_break == HasBit(v, ALLOWED_BREAK_BIT)
  IN  [val |-> v,
       state |-> <<ClearBreakBits(v), cls = ZWJ>>,
       item |-> <<i, is_break, is_mandatory>>]

\* The closure given to scan.
ScanClosure(st, i, cls) ==
  LET v == PAIR_TABLE[st[1]][cls]
      is_mandatory == HasBit(v, MANDATORY_BREAK_BIT)
      is_break == HasBit(v, ALLOWED_BREAK_BIT) /\ (~st[2] \/ is_mandatory)
  IN  [val |-> v,
       state |-> <<ClearBreakBits(v), cls = ZWJ>>,
       item |-> <<i, is_break, is_mandatory>>]

\* Mutation: the two kinds exchanged.
FilterMapSwapped(it) ==
  IF it[2] THEN <<it[1], IF it[3] THEN "Allowed" ELSE "Mandatory">> ELSE None

\* The closure given to filter_map.
FilterMap(it) ==
  IF it[2] THEN <<it[1], IF it[3] THEN "Mandatory" ELSE "Allowed">> ELSE None

\* One element (i, cls) pulled through scan and filter_map; rcls is the class
\* the second scan reads at the same offset.
Pull(i, cls, rcls) ==
  IF InBounds(state[1], cls) /\ InBounds(resolved.state[1], rcls)
  THEN LET r == ScanClosure(state, i, cls)
           y == FilterMap(r.item)
           q == ScanClosure(resolved.state, i, rcls)
       IN  /\ val' = r.val
           /\ state' = r.state
           /\ item' = r.item
           /\ opp' = IF y = None THEN opp ELSE [n |-> opp.n + 1, last |-> y]
           /\ elem' = <<i, cls>>
           /\ prev' = elem[2]
           /\ resolved' = [state |-> q.state, cls |-> rcls, yield |-> FilterMap(q.item)]
           /\ pc' = IF cls = EOT THEN "once" ELSE "chars"
  ELSE /\ pc' = "panic"
       /\ UNCHANGED <<val, state, item, opp, elem, prev, resolved>>

\* .scan((SOT, false), ...) before the first element
ScanInit ==
  /\ pc = "chars"
  /\ len = 0
  /\ starts = {}
  /\ state = <<SOT, FALSE>>
  /\ elem = <<0, SOT>>
  /\ prev = SOT
  /\ val = 0
  /\ item = None
  /\ opp = [n |-> 0, last |-> None]
  /\ resolved = [state |-> <<SOT, FALSE>>, cls |-> SOT, yield |-> None]

\* No text has been handed over for collection.
TextIdle == s = <<>> /\ result = None /\ cut = None

\* The property table plays no part: no data, nothing built, nothing looked up.
TableIdle ==
  /\ data = <<>>
  /\ build = [should_continue |-> FALSE, pos |-> 0, page_count |-> 0]
  /\ PAGE_INDICES = <<>>
  /\ BREAK_PROP_DATA = <<>>
  /\ lookup = None
  /\ lines = <<>>
  /\ num_states = NUM_CLASSES + NUM_EXTRA_STATES
  /\ tables_rs = None
  /\ exit = None

\* No iterators side by side.
ParIdle == iters = <<>>

\* The macro is not being expanded.
RuleIdle == pair_table = <<>> /\ rest = 0 /\ pending = <<>> /\ ran = <<>>

\* is_safe_pair is not being called.
SafeIdle == pair = <<>> /\ safe = None

\* No run is being followed.
RunIdle == run = <<>>

AuxIdle == ParIdle /\ RuleIdle /\ SafeIdle /\ RunIdle

Init ==
  /\ ScanInit
  /\ TextIdle
  /\ TableIdle
  /\ AuxIdle

\* Mutation: the offset after the code point instead of its start.
StepCharEndOffset(cls, w) ==
  /\ pc = "chars"
  /\ len + w <= MaxLen
  /\ len' = len + w
  /\ starts' = starts \cup {len}
  /\ \E rcls \in {cls, Resolve(cls)} : Pull(len + w, cls, rcls)
  /\ UNCHANGED <<textVars, tableVars, auxVars>>

\* char_indices yields (i, c); map gives (i, break_property(c)).
StepChar(cls, w) ==
  /\ pc = "chars"
  /\ len + w <= MaxLen
  /\ len' = len + w
  /\ starts' = starts \cup {len}
  /\ \E rcls \in {cls, Resolve(cls)} : Pull(len, cls, rcls)
  /\ UNCHANGED <<textVars, tableVars, auxVars>>

\* char_indices is exhausted; once yields (s.len(), EOT).
StepEot ==
  /\ pc = "chars"
  /\ Pull(len, EOT, EOT)
  /\ UNCHANGED <<len, starts>>
  /\ UNCHANGED <<textVars, tableVars, auxVars>>

\* The chain is exhausted: next() returns None.
Finish ==
  /\ pc = "once"
  /\ pc' = "done"
  /\ UNCHANGED <<len, starts, state, elem, prev, val, item, opp, resolved>>
  /\ UNCHANGED <<textVars, tableVars, auxVars>>

Next ==
  \/ \E cls \in Classes, w \in Utf8Widths : StepChar(cls, w)
  \/ StepEot
  \/ Finish

Spec == Init /\ [][Next]_vars

(***************************************************************************)
(* linebreaks(s) collected: the whole chain applied to a given text.       *)
(***************************************************************************)
\* s.len()
RECURSIVE StrLen(_)
StrLen(t) == IF t = <<>> THEN 0 ELSE t[1][2] + StrLen(Tail(t))

\* s.char_indices().map(|(i, c)| (i, break_property(c as u32) as u8)), from
\* offset i on
RECURSIVE CharIndices(_, _)
CharIndices(t, i) ==
  IF t = <<>> THEN <<>> ELSE <<(<<i, t[1][1]>>)>> \o CharIndices(Tail(t), i + t[1][2])

\* .chain(once((s.len(), EOT)))
Chain(t) == CharIndices(t, 0) \o <<(<<StrLen(t), EOT>>)>>

\* .scan(st, closure).filter_map(closure) over the elements, collected
RECURSIVE ScanFilter(_, _)
ScanFilter(st, elems) ==
  IF elems = <<>> THEN <<>>
  ELSE LET r == ScanClosure(st, elems[1][1], elems[1][2])
           y == FilterMap(r.item)
       IN  (IF y = None THEN <<>> ELSE <<y>>) \o ScanFilter(r.state, Tail(elems))

linebreaks(t) == ScanFilter(<<SOT, FALSE>>, Chain(t))

\* Longest text drawn from the alphabet of the documented examples.
MaxTextLen == 3

\* Code points as (class, len_utf8): a letter, the space, the line feed, '!'.
Letter == <<AL, 1>>

Space == <<SP, 1>>

LineFeed == <<LF, 1>>

Exclam == <<EX, 1>>

\* "a b \nc", the example of the crate documentation
DocText1 == <<Letter, Space, Letter, Space, LineFeed, Letter>>

\* "Hello world!", the example of linebreaks' documentation
DocText2 ==
  <<Letter, Letter, Letter, Letter, Letter, Space,
    Letter, Letter, Letter, Letter, Letter, Exclam>>

Texts ==
  {DocText1, DocText2}
    \cup UNION {[1 .. n -> {Letter, Space, LineFeed, Exclam}] : n \in 0 .. MaxTextLen}

InitText ==
  /\ ScanInit
  /\ TableIdle
  /\ AuxIdle
  /\ s \in Texts
  /\ result = None
  /\ cut = None

\* linebreaks(s).collect()
Collect ==
  /\ result = None
  /\ result' = <<linebreaks(s)>>
  /\ UNCHANGED <<s, cut, scanVars, tableVars, auxVars>>

NextText == Collect

SpecText == InitText /\ [][NextText]_vars

(***************************************************************************)
(* The property table: main's value stream and page loop (build.rs) and    *)
(* break_property (lib.rs).                                                *)
(***************************************************************************)
\* for _ in 0..256; codepoint >> 8 and codepoint & 0xFF at run time
PAGE_LEN == 256

\* char::MAX, 0x10FFFF: the largest value linebreaks passes (c as u32)
CHAR_MAX == 1114111

\* The class default_value names for a code point no record lists.
\* Mutation: no default rule, every gap is XX.
default_value_unknown(codepoint) == XX

default_value(codepoint) ==
  CASE \/ codepoint \in 13312 .. 19903      \* 0x3400..=0x4DBF
       \/ codepoint \in 19968 .. 40959      \* 0x4E00..=0x9FFF
       \/ codepoint \in 63744 .. 64255      \* 0xF900..=0xFAFF
       -> ID
    [] \/ codepoint \in 131072 .. 196605    \* 0x20000..=0x2FFFD
       \/ codepoint \in 196608 .. 262141    \* 0x30000..=0x3FFFD
       -> ID
    [] codepoint \in 126976 .. 131069       \* 0x1F000..=0x1FFFD
       -> ID
    [] codepoint \in 8352 .. 8399           \* 0x20A0..=0x20CF
       -> PR
    [] OTHER -> XX

\* The records are ascending and do not overlap, as in LineBreak.txt.
Ascending(d) == \A r \in 2 .. Len(d) : d[r][1] > d[r - 1][2]

\* The length of the stream `values`: record r yields the codes last..=end,
\* where last is the end of record r-1 plus one, so the stream runs from code
\* 0 to the end of the last record.
StreamLen(d) == IF d = <<>> THEN 0 ELSE d[Len(d)][2] + 1

\* The value the stream yields for `code`: from the record whose range
\* last..=end holds it, default_value(code) below the record's start and the
\* record's class from there on.
ValueAt(d, code) ==
  LET r == CHOOSE k \in 1 .. Len(d) :
             code <= d[k][2] /\ (k = 1 \/ code > d[k - 1][2])
  IN  IF code < d[r][1] THEN default_value(code) ELSE d[r][3]

\* Mutation: the page written as it is, without the padding.
EmitPageUnpadded(page) == page

\* The page written out: its values, then XX up to 256 entries.
EmitPage(page) ==
  [k \in 1 .. PAGE_LEN |-> IF k <= Len(page) THEN page[k] ELSE XX]

\* One iteration of `while should_continue` on the loop's variables b: up to
\* 256 values are taken from the stream; a page that is not empty gets an index
\* entry, and is written out unless all its values are equal.
FillPage(d, b) ==
  LET left == StreamLen(d) - b.pos
      n == IF left < PAGE_LEN THEN left ELSE PAGE_LEN
      \* the page is empty at the start of an iteration; the values are pushed
      page == <<>> \o [k \in 1 .. n |-> ValueAt(d, b.pos + k - 1)]
      page_equal == \A k \in 1 .. n : page[k] = page[1]
      written == n > 0 /\ ~page_equal
  IN  [should_continue |-> (n = PAGE_LEN),
       pos |-> b.pos + n,
       page_count |-> b.page_count + (IF written THEN 1 ELSE 0),
       page_indices |->
         IF n = 0 THEN b.page_indices
         ELSE Append(b.page_indices,
                     IF page_equal THEN page[1] + UNIFORM_PAGE ELSE b.page_count),
       pages |-> IF written THEN Append(b.pages, EmitPage(page)) ELSE b.pages]

\* `while should_continue`, for at most n iterations: the first half of them,
\* then the rest.
RECURSIVE WhileLoop(_, _, _)
WhileLoop(d, n, b) ==
  IF n = 0 \/ ~b.should_continue THEN b
  ELSE IF n = 1 THEN FillPage(d, b)
  ELSE WhileLoop(d, n - n \div 2, WhileLoop(d, n \div 2, b))

\* main's page construction, from the first iteration to the one in which the
\* stream runs out: the iteration after StreamLen \div 256 full pages.
BuildTables ==
  /\ build.should_continue
  /\ \E b \in {WhileLoop(data, StreamLen(data) \div PAGE_LEN + 1,
                          [should_continue |-> build.should_continue,
                           pos |-> build.pos,
                           page_count |-> build.page_count,
                           page_indices |-> PAGE_INDICES,
                           pages |-> BREAK_PROP_DATA])} :
       /\ build' = [should_continue |-> b.should_continue,
                    pos |-> b.pos,
                    page_count |-> b.page_count]
       /\ PAGE_INDICES' = b.page_indices
       /\ BREAK_PROP_DATA' = b.pages
  /\ UNCHANGED <<data, lookup, lines, num_states, tables_rs, exit>>
  /\ UNCHANGED <<scanVars, textVars, auxVars>>

\* break_property on the tables `indices` and `pages`: the class, or a panic
\* when an index is out of bounds.  (The transmute of a uniform entry is only
\* defined for a class number; undefined marks any other.)
BreakProperty(indices, pages, codepoint) ==
  LET hi == codepoint \div PAGE_LEN
      lo == codepoint % PAGE_LEN
  IN  IF hi + 1 \notin DOMAIN indices
      THEN [panic |-> TRUE, undefined |-> FALSE, class |-> XX]
      ELSE IF HasBit(indices[hi + 1], UNIFORM_PAGE)
      THEN LET tag == (indices[hi + 1] - UNIFORM_PAGE) % 256
           IN  [panic |-> FALSE, undefined |-> tag >= NUM_CLASSES, class |-> tag]
      ELSE IF indices[hi + 1] + 1 \notin DOMAIN pages
              \/ lo + 1 \notin DOMAIN pages[indices[hi + 1] + 1]
      THEN [panic |-> TRUE, undefined |-> FALSE, class |-> XX]
      ELSE [panic |-> FALSE, undefined |-> FALSE,
            class |-> pages[indices[hi + 1] + 1][lo + 1]]

break_property(codepoint) == BreakProperty(PAGE_INDICES, BREAK_PROP_DATA, codepoint)

\* The tables are complete: the page loop has ended.
Built == data # <<>> /\ ~build.should_continue

\* A call break_property(codepoint), codepoint any u32.
Lookup(codepoint) ==
  /\ Built
  /\ lookup' = <<codepoint, break_property(codepoint)>>
  /\ UNCHANGED <<data, build, PAGE_INDICES, BREAK_PROP_DATA, lines, num_states, tables_rs, exit>>
  /\ UNCHANGED <<scanVars, textVars, auxVars>>

\* Most records of a data file.
MaxRecords == 2

\* Where the records of the small data files start and end: around the edges
\* of the first pages.
Cuts == {0, 1, 255, 256, 257, 511}

Segments == {<<a, b, lb>> : a \in Cuts, b \in Cuts, lb \in {AL, XX}}

SmallFiles ==
  {d \in UNION {[1 .. n -> {g \in Segments : g[1] <= g[2]}] : n \in 1 .. MaxRecords} :
     Ascending(d)}

\* A file that reaches, as LineBreak.txt does, 10FFFD in the last block of
\* code points: 000A;LF and 10FFFD;AL.
FullFile == << <<10, 10, LF>>, <<1114109, 1114109, AL>> >>

DataFiles == SmallFiles \cup {FullFile}

\* The u32 values looked up: the cuts, the first code points after the pages
\* of the small files, the last code points, the first value that is no code
\* point, and 0x7FFFFFFF.
Probes ==
  Cuts \cup {512, 767, 768, 1114109, 1114110, CHAR_MAX, CHAR_MAX + 1, 2147483647}

InitTable ==
  /\ ScanInit
  /\ TextIdle
  /\ AuxIdle
  /\ data \in DataFiles
  /\ build = [should_continue |-> TRUE, pos |-> 0, page_count |-> 0]
  /\ PAGE_INDICES = <<>>
  /\ BREAK_PROP_DATA = <<>>
  /\ lookup = None
  /\ lines = <<>>
  /\ num_states = NUM_CLASSES + NUM_EXTRA_STATES
  /\ tables_rs = None
  /\ exit = None

NextTable ==
  \/ BuildTables
  \/ \E c \in Probes : Lookup(c)

SpecTable == InitTable /\ [][NextTable]_vars

(***************************************************************************)
(* Several linebreaks iterators side by side.  Each call of linebreaks     *)
(* returns an iterator that owns its position in the text and its scan     *)
(* state; the tables are statics.  A step of one iterator pulls one        *)
(* element through its scan and filter_map; an iterator may be dropped     *)
(* before it is exhausted.                                                 *)
(***************************************************************************)
\* Iterators alive at once.
NumIters == 2

\* The texts they scan, as (class, len_utf8).
ParTexts ==
  { <<>>,
    <<Letter, Space, Letter>>,
    << <<ZWJ, 3>>, Letter >>,
    << <<RI, 4>>, <<RI, 4>>, <<RI, 4>> >>,
    << <<OP, 1>>, Space, LineFeed >> }

\* Mutation: the scan state is the first iterator's, whoever steps.
ScanStateShared(its, i) == its[1].state

\* The state the closure of iterator i captures: its own.
ScanState(its, i) == its[i].state

\* linebreaks(text): nothing is consumed until next() is called.
NewIter(text) ==
  [text |-> text, pos |-> 0, off |-> 0, state |-> <<SOT, FALSE>>,
   out |-> <<>>, phase |-> "chars"]

\* Mutation: the offset of the element is counted from the end of the text.
ParPullFromEnd(i, cls) ==
  LET it == iters[i]
      r == ScanClosure(ScanState(iters, i), StrLen(it.text) - it.off, cls)
      y == FilterMap(r.item)
  IN  [it EXCEPT !.state = r.state,
                 !.out = IF y = None THEN @ ELSE Append(@, y)]

\* Iterator i with the element (off, cls) pulled through its scan and its
\* filter_map.
ParPull(i, cls) ==
  LET it == iters[i]
      r == ScanClosure(ScanState(iters, i), it.off, cls)
      y == FilterMap(r.item)
  IN  [it EXCEPT !.state = r.state,
                 !.out = IF y = None THEN @ ELSE Append(@, y)]

InitPar ==
  /\ ScanInit
  /\ TextIdle
  /\ TableIdle
  /\ RuleIdle /\ SafeIdle /\ RunIdle
  /\ iters \in [1 .. NumIters -> {NewIter(t) : t \in ParTexts}]

\* Iterator i takes the next (i, c) of char_indices.
ParStepChar(i) ==
  /\ iters[i].phase = "chars"
  /\ iters[i].pos < Len(iters[i].text)
  /\ LET c == iters[i].text[iters[i].pos + 1]
     IN  iters' = [iters EXCEPT ![i] =
                     [ParPull(i, c[1]) EXCEPT !.pos = @ + 1, !.off = @ + c[2]]]
  /\ UNCHANGED <<scanVars, textVars, tableVars, ruleVars, safeVars, runVars>>

\* Mutation: once((s.len(), EOT)) is never used up.
ParStepEotAgain(i) ==
  /\ iters[i].phase = "chars"
  /\ iters[i].pos = Len(iters[i].text)
  /\ iters' = [iters EXCEPT ![i] = ParPull(i, EOT)]
  /\ UNCHANGED <<scanVars, textVars, tableVars, ruleVars, safeVars, runVars>>

\* Iterator i has exhausted char_indices and takes (s.len(), EOT).
ParStepEot(i) ==
  /\ iters[i].phase = "chars"
  /\ iters[i].pos = Len(iters[i].text)
  /\ iters' = [iters EXCEPT ![i] = [ParPull(i, EOT) EXCEPT !.phase = "once"]]
  /\ UNCHANGED <<scanVars, textVars, tableVars, ruleVars, safeVars, runVars>>

\* Iterator i is exhausted: next() returns None.
ParFinish(i) ==
  /\ iters[i].phase = "once"
  /\ iters' = [iters EXCEPT ![i].phase = "done"]
  /\ UNCHANGED <<scanVars, textVars, tableVars, ruleVars, safeVars, runVars>>

\* Iterator i is dropped before it is exhausted.
ParDrop(i) ==
  /\ iters[i].phase = "chars"
  /\ iters' = [iters EXCEPT ![i].phase = "dropped"]
  /\ UNCHANGED <<scanVars, textVars, tableVars, ruleVars, safeVars, runVars>>

NextPar ==
  \E i \in 1 .. NumIters :
    \/ ParStepChar(i)
    \/ ParStepEot(i)
    \/ ParFinish(i)
    \/ ParDrop(i)

SpecPar == InitPar /\ [][NextPar]_vars

(***************************************************************************)
(* rules2pair_table! step by step.  The arm that matches a rule first      *)
(* expands the rest of the rule list (a nested macro call) and has its own *)
(* loop after it; the loops therefore run once the exit condition, the     *)
(* empty list, is reached, innermost first.                                *)
(***************************************************************************)
\* Mutation: the loop of the outermost expanded rule runs first.
Outermost(p) == Len(p)

\* The pending loop that runs next: the innermost one, expanded last.
Innermost(p) == 1

InitRules ==
  /\ ScanInit
  /\ TextIdle
  /\ TableIdle
  /\ ParIdle /\ SafeIdle /\ RunIdle
  /\ pair_table = InitialTable
  /\ rest = 1
  /\ pending = <<>>
  /\ ran = <<>>

\* An arm matches the next rule and expands the rest of the list before its
\* own loop.
ExpandRule ==
  /\ rest \in 1 .. Len(RULES)
  /\ pending' = <<rest>> \o pending
  /\ rest' = rest + 1
  /\ UNCHANGED <<pair_table, ran>>
  /\ UNCHANGED <<scanVars, textVars, tableVars, parVars, safeVars, runVars>>

\* The list is used up (exit condition); the next pending loop runs.
RunLoop ==
  /\ rest = Len(RULES) + 1
  /\ pending # <<>>
  /\ LET k == Innermost(pending)
     IN  /\ pair_table' = ApplyRule(RULES[pending[k]], pair_table)
         /\ ran' = Append(ran, pending[k])
         /\ pending' = SubSeq(pending, 1, k - 1) \o SubSeq(pending, k + 1, Len(pending))
  /\ UNCHANGED rest
  /\ UNCHANGED <<scanVars, textVars, tableVars, parVars, safeVars, runVars>>

NextRules == ExpandRule \/ RunLoop

SpecRules == InitRules /\ [][NextRules]_vars

(***************************************************************************)
(* The scan followed through runs of code points: beside the scanner's own *)
(* state, `run` records what the text read so far was - the row after the  *)
(* base of a combining run, an OP or ZW and the spaces after it, the       *)
(* regional indicators counted so far.  `run` is read by no scanner step.  *)
(***************************************************************************)
MaxRunLen == 4

RunWidths == 1 .. 2

\* The classes after which LB9 attaches no mark.
NoBase == {BK, CR, LF, NL, SP, ZW}

Marks == {CM, ZWJ}

\* What the text was, once a code point of class cls is read and the scanner
\* is in row `row`, has yielded n opportunities and the code point ends at
\* offset `end`.
Follow(r, cls, row, n, end) ==
  LET mark == cls \in Marks /\ r.base # None
      crlf == cls = LF /\ r.cr
  IN  [base    |-> IF cls \in NoBase THEN None ELSE IF mark THEN r.base ELSE <<row>>,
       mark    |-> mark,
       op      |-> cls = OP \/ (cls = SP /\ r.op),
       afterOp |-> r.op,
       zw      |-> cls = ZW \/ (cls = SP /\ r.zw),
       afterZw |-> r.zw,
       ri      |-> IF cls = RI THEN r.ri + 1 ELSE IF cls \in Marks /\ r.ri > 0 THEN r.ri ELSE 0,
       rid     |-> IF cls = RI THEN r.rid + 1 ELSE 0,
       cr      |-> cls = CR,
       crlf    |-> crlf,
       afterCrLf |-> r.crlf,
       \* opportunities yielded before the LF of a CR LF, and where the LF ends
       crn     |-> IF crlf THEN n ELSE IF r.crlf THEN r.crn ELSE 0,
       at      |-> IF crlf THEN end ELSE IF r.crlf THEN r.at ELSE 0]

RunStart ==
  [base |-> None, mark |-> FALSE, op |-> FALSE, afterOp |-> FALSE,
   zw |-> FALSE, afterZw |-> FALSE, ri |-> 0, rid |-> 0,
   cr |-> FALSE, crlf |-> FALSE, afterCrLf |-> FALSE, crn |-> 0, at |-> 0]

InitRuns ==
  /\ ScanInit
  /\ TextIdle
  /\ TableIdle
  /\ ParIdle /\ RuleIdle /\ SafeIdle
  /\ run = RunStart

\* char_indices yields (i, c); map gives (i, break_property(c)).
RunChar(cls, w) ==
  /\ pc = "chars"
  /\ len + w <= MaxRunLen
  /\ len' = len + w
  /\ starts' = starts \cup {len}
  /\ Pull(len, cls, cls)
  /\ run' = IF pc' = "panic" THEN run ELSE Follow(run, cls, state'[1], opp'.n, len')
  /\ UNCHANGED <<textVars, tableVars, parVars, ruleVars, safeVars>>

\* char_indices is exhausted; once yields (s.len(), EOT).
RunEot ==
  /\ pc = "chars"
  /\ Pull(len, EOT, EOT)
  /\ run' = IF pc' = "panic" THEN run ELSE Follow(run, EOT, state'[1], opp'.n, len)
  /\ UNCHANGED <<len, starts>>
  /\ UNCHANGED <<textVars, tableVars, parVars, ruleVars, safeVars>>

\* The chain is exhausted: next() returns None.
RunFinish ==
  /\ pc = "once"
  /\ pc' = "done"
  /\ UNCHANGED <<len, starts, state, elem, prev, val, item, opp, resolved>>
  /\ UNCHANGED <<textVars, tableVars, auxVars>>

NextRuns ==
  \/ \E cls \in Classes, w \in RunWidths : RunChar(cls, w)
  \/ RunEot
  \/ RunFinish

SpecRuns == InitRuns /\ [][NextRuns]_vars

(***************************************************************************)
(* is_safe_pair: the pairs that are not safe are synthesized from the pair *)
(* table and written into tables.rs as one pattern of class names.         *)
(***************************************************************************)
BREAK_CLASS_TABLE ==
  <<
     "BK", "CR", "LF", "CM", "NL", "SG", "WJ", "ZW", "GL", "SP", "ZWJ", "B2",
     "BA", "BB", "HY", "CB", "CL", "CP", "EX", "IN", "NS", "OP", "QU", "IS",
     "NU", "PO", "PR", "SY", "AI", "AL", "CJ", "EB", "EM", "H2", "H3", "HL",
     "ID", "JL", "JV", "JT", "RI", "SA", "XX"
  >>

\* enum BreakClass, each variant with its discriminant.
BreakClass ==
  [
     Mandatory |-> 0, CarriageReturn |-> 1, LineFeed |-> 2,
     CombiningMark |-> 3, NextLine |-> 4, Surrogate |-> 5, WordJoiner |-> 6,
     ZeroWidthSpace |-> 7, NonBreakingGlue |-> 8, Space |-> 9,
     ZeroWidthJoiner |-> 10, BeforeAndAfter |-> 11, After |-> 12,
     Before |-> 13, Hyphen |-> 14, Contingent |-> 15,
     ClosePunctuation |-> 16, CloseParenthesis |-> 17, Exclamation |-> 18,
     Inseparable |-> 19, NonStarter |-> 20, OpenPunctuation |-> 21,
     Quotation |-> 22, InfixSeparator |-> 23, Numeric |-> 24, Postfix |-> 25,
     Prefix |-> 26, Symbol |-> 27, Ambiguous |-> 28, Alphabetic |-> 29,
     ConditionalJapaneseStarter |-> 30, EmojiBase |-> 31,
     EmojiModifier |-> 32, HangulLvSyllable |-> 33, HangulLvtSyllable |-> 34,
     HebrewLetter |-> 35, Ideographic |-> 36, HangulLJamo |-> 37,
     HangulVJamo |-> 38, HangulTJamo |-> 39, RegionalIndicator |-> 40,
     ComplexContext |-> 41, Unknown |-> 42
  ]

\* use self::BreakClass::{After as BA, ...}: each name with the variant it is
\* an alias of.
Alias ==
  <<
     <<"BA", "After">>, <<"AL", "Alphabetic">>, <<"AI", "Ambiguous">>,
     <<"BB", "Before">>, <<"B2", "BeforeAndAfter">>,
     <<"CR", "CarriageReturn">>, <<"CP", "CloseParenthesis">>,
     <<"CL", "ClosePunctuation">>, <<"CM", "CombiningMark">>,
     <<"SA", "ComplexContext">>, <<"CJ", "ConditionalJapaneseStarter">>,
     <<"CB", "Contingent">>, <<"EB", "EmojiBase">>,
     <<"EM", "EmojiModifier">>, <<"EX", "Exclamation">>,
     <<"JL", "HangulLJamo">>, <<"H2", "HangulLvSyllable">>,
     <<"H3", "HangulLvtSyllable">>, <<"JT", "HangulTJamo">>,
     <<"JV", "HangulVJamo">>, <<"HL", "HebrewLetter">>, <<"HY", "Hyphen">>,
     <<"ID", "Ideographic">>, <<"IS", "InfixSeparator">>,
     <<"IN", "Inseparable">>, <<"LF", "LineFeed">>, <<"BK", "Mandatory">>,
     <<"NL", "NextLine">>, <<"GL", "NonBreakingGlue">>,
     <<"NS", "NonStarter">>, <<"NU", "Numeric">>,
     <<"OP", "OpenPunctuation">>, <<"PO", "Postfix">>, <<"PR", "Prefix">>,
     <<"QU", "Quotation">>, <<"RI", "RegionalIndicator">>, <<"SP", "Space">>,
     <<"SG", "Surrogate">>, <<"SY", "Symbol">>, <<"XX", "Unknown">>,
     <<"WJ", "WordJoiner">>, <<"ZWJ", "ZeroWidthJoiner">>,
     <<"ZW", "ZeroWidthSpace">>
  >>

\* The variant a name of a pattern stands for.
Variant(n) == BreakClass[Alias[CHOOSE k \in 1 .. Len(Alias) : Alias[k][1] = n][2]]

\* Mutation: the state reached, without the flags of the transition.
TransitionStateOnly(st, j) == ClearBreakBits(PAIR_TABLE[st][j])

\* .map(|i| pair_table[i][j]): the transition taken on j from a state.
Transition(st, j) == PAIR_TABLE[st][j]

\* All states that could have resulted from class i, one for every row.
possible_states(i) ==
  <<>> \o [k \in 1 .. (NUM_CLASSES + NUM_EXTRA_STATES) |-> ClearBreakBits(PAIR_TABLE[k - 1][i])]

\* Mutation: the fold never stops.
try_fold_all(xs, k, acc) == <<acc>>

\* try_fold(None, ..) from element k on: <<>> when it stops at a transition
\* that differs from the one before, else the accumulator wrapped in Some.
RECURSIVE try_fold(_, _, _)
try_fold(xs, k, acc) ==
  IF k > Len(xs) THEN <<acc>>
  ELSE IF acc # None /\ xs[k] # acc[1] THEN None
  ELSE try_fold(xs, k + 1, <<xs[k]>>)

unsafe_pairs ==
  {p \in Classes \X Classes :
     LET st == possible_states(p[1])
         xs == <<>> \o [k \in 1 .. Len(st) |-> Transition(st[k], p[2])]
     IN  try_fold(xs, 1, None) = None}

\* The pattern of is_safe_pair as written into tables.rs.
UnsafePattern ==
  {<<BREAK_CLASS_TABLE[p[1] + 1], BREAK_CLASS_TABLE[p[2] + 1]>> : p \in unsafe_pairs}

\* The values (a, b) the pattern matches, each name resolved to its variant.
UnsafeMatch == {<<Variant(q[1]), Variant(q[2])>> : q \in UnsafePattern}

\* if let <pattern> = (a, b) { false } else { true }
is_safe_pair(a, b) == <<a, b>> \notin UnsafeMatch

InitSafe ==
  /\ ScanInit
  /\ TextIdle
  /\ TableIdle
  /\ ParIdle /\ RuleIdle /\ RunIdle
  /\ pair \in Classes \X Classes
  /\ safe = None

IsSafePair ==
  /\ safe = None
  /\ safe' = <<is_safe_pair(pair[1], pair[2])>>
  /\ UNCHANGED pair
  /\ UNCHANGED <<scanVars, textVars, tableVars, parVars, ruleVars, runVars>>

NextSafe == IsSafePair

SpecSafe == InitSafe /\ [][NextSafe]_vars

(***************************************************************************)
(* One linebreaks iterator pulled by its caller until next() returns None, *)
(* as `for` and `collect` do.                                              *)
(***************************************************************************)
MaxIterLen == 3

\* Code points as (class, len_utf8), of one to four bytes.
IterAlphabet ==
  { <<AL, 1>>, <<SP, 1>>, <<LF, 1>>, <<CR, 1>>, <<OP, 1>>,
    <<CM, 2>>, <<ZWJ, 3>>, <<ZW, 3>>, <<BK, 3>>, <<RI, 4>> }

IterTexts == UNION {[1 .. n -> IterAlphabet] : n \in 0 .. MaxIterLen}

InitIter ==
  /\ ScanInit
  /\ TextIdle
  /\ TableIdle
  /\ RuleIdle /\ SafeIdle /\ RunIdle
  /\ iters \in {<<NewIter(t)>> : t \in IterTexts}

NextIter ==
  \/ ParStepChar(1)
  \/ ParStepEot(1)
  \/ ParFinish(1)

\* The caller goes on calling next() as long as it has not returned None.
SpecIter == InitIter /\ [][NextIter]_vars /\ WF_vars(NextIter)

(***************************************************************************)
(* Two texts with a common beginning, each scanned by its own iterator.    *)
(***************************************************************************)
MaxPrefixTextLen == 3

\* The code points shared at the beginning.
SharedLen == 2

PrefixAlphabet == { <<AL, 1>>, <<SP, 1>>, <<OP, 1>>, <<ZWJ, 3>> }

PrefixTails == UNION {[1 .. n -> PrefixAlphabet] : n \in 0 .. (MaxPrefixTextLen - SharedLen)}

InitPrefix ==
  /\ ScanInit
  /\ TextIdle
  /\ TableIdle
  /\ RuleIdle /\ SafeIdle /\ RunIdle
  /\ iters \in {<<NewIter(p \o u), NewIter(p \o v)>> :
                  p \in [1 .. SharedLen -> PrefixAlphabet], u \in PrefixTails, v \in PrefixTails}

NextPrefix ==
  \E i \in 1 .. 2 :
    \/ ParStepChar(i)
    \/ ParStepEot(i)
    \/ ParFinish(i)

SpecPrefix == InitPrefix /\ [][NextPrefix]_vars

(***************************************************************************)
(* A text scanned as a whole and scanned anew from one of its code points, *)
(* as a consumer of is_safe_pair does when a text is edited.               *)
(***************************************************************************)
MaxTailLen == 1

\* len_utf8 of the code point that stands for a class: one to four bytes.
WidthOf(cls) == (cls % 4) + 1

CodePoint(cls) == <<cls, WidthOf(cls)>>

\* What comes before the pair: nothing, one code point of any class, or one
\* of the two-class sequences a synthetic row remembers.
RestartPrefixes ==
  {<<>>} \cup {<<CodePoint(x)>> : x \in Classes}
    \cup {<<CodePoint(x), CodePoint(SP)>> : x \in {ZW, OP, QU, CL, CP, B2}}
    \cup {<<CodePoint(HL), CodePoint(HY)>>, <<CodePoint(HL), CodePoint(BA)>>,
          <<CodePoint(RI), CodePoint(RI)>>}

\* What comes after the pair.
RestartTails == UNION {[1 .. n -> {CodePoint(AL)}] : n \in 0 .. MaxTailLen}

InitRestart ==
  /\ ScanInit
  /\ TableIdle
  /\ ParIdle /\ RuleIdle /\ RunIdle
  /\ pair \in Classes \X Classes
  /\ safe = None
  /\ \E p \in RestartPrefixes, u \in RestartTails :
       /\ s = p \o <<CodePoint(pair[1]), CodePoint(pair[2])>> \o u
       /\ cut = <<Len(p) + 1>>
  /\ result = None

\* is_safe_pair on the classes at the cut, linebreaks on the whole text and
\* linebreaks on the text from the cut on.
Restart ==
  /\ result = None
  /\ safe' = <<is_safe_pair(s[cut[1]][1], s[cut[1] + 1][1])>>
  /\ result' = <<linebreaks(s), linebreaks(SubSeq(s, cut[1], Len(s)))>>
  /\ UNCHANGED <<s, cut, pair>>
  /\ UNCHANGED <<scanVars, tableVars, parVars, ruleVars, runVars>>

NextRestart == Restart

SpecRestart == InitRestart /\ [][NextRestart]_vars

(***************************************************************************)
(* main of build.rs from its first statement to its return: the assertion  *)
(* on the number of states, tables.rs created, the lines of LineBreak.txt  *)
(* parsed as the page loop asks for values, the pages and the rest written *)
(* through a BufWriter.  A line is a sequence of characters.               *)
(***************************************************************************)
MaxLines == 3

Digits ==
  {
     "0", "1", "2", "3", "4", "5", "6", "7", "8", "9"
  }

Upper ==
  {
     "A", "B", "C", "D", "E", "F", "G", "H", "I", "J", "K", "L", "M", "N",
     "O", "P", "Q", "R", "S", "T", "U", "V", "W", "X", "Y", "Z"
  }

Lower ==
  {
     "a", "b", "c", "d", "e", "f", "g", "h", "i", "j", "k", "l", "m", "n",
     "o", "p", "q", "r", "s", "t", "u", "v", "w", "x", "y", "z"
  }

\* [[:xdigit:]]
XDigit == Digits \cup {"A", "B", "C", "D", "E", "F", "a", "b", "c", "d", "e", "f"}

\* \w, for the characters of a data file
WordChar == Digits \cup Upper \cup Lower \cup {"_"}

\* The keys of lb_class_by_key, in the order of their numbers.
Keys ==
  <<
     <<"B", "K">>, <<"C", "R">>, <<"L", "F">>, <<"C", "M">>, <<"N", "L">>,
     <<"S", "G">>, <<"W", "J">>, <<"Z", "W">>, <<"G", "L">>, <<"S", "P">>,
     <<"Z", "W", "J">>, <<"B", "2">>, <<"B", "A">>, <<"B", "B">>,
     <<"H", "Y">>, <<"C", "B">>, <<"C", "L">>, <<"C", "P">>, <<"E", "X">>,
     <<"I", "N">>, <<"N", "S">>, <<"O", "P">>, <<"Q", "U">>, <<"I", "S">>,
     <<"N", "U">>, <<"P", "O">>, <<"P", "R">>, <<"S", "Y">>, <<"A", "I">>,
     <<"A", "L">>, <<"C", "J">>, <<"E", "B">>, <<"E", "M">>, <<"H", "2">>,
     <<"H", "3">>, <<"H", "L">>, <<"I", "D">>, <<"J", "L">>, <<"J", "V">>,
     <<"J", "T">>, <<"R", "I">>, <<"S", "A">>, <<"X", "X">>
  >>

\* Mutation: a key that is not known counts as XX.
lb_class_by_key_lenient(k) ==
  IF \E i \in 1 .. Len(Keys) : Keys[i] = k
  THEN <<(CHOOSE i \in 1 .. Len(Keys) : Keys[i] = k) - 1>>
  ELSE <<XX>>

\* lb_class_by_key: the number of the class in a one-element sequence, or
\* None for unreachable!().
lb_class_by_key(k) ==
  IF \E i \in 1 .. Len(Keys) : Keys[i] = k
  THEN <<(CHOOSE i \in 1 .. Len(Keys) : Keys[i] = k) - 1>>
  ELSE None

\* How many characters of the line l, from position i on, are in the set S.
RECURSIVE RunOf(_, _, _)
RunOf(l, i, S) == IF i <= Len(l) /\ l[i] \in S THEN 1 + RunOf(l, i + 1, S) ELSE 0

\* re.captures(&l): the groups start, end (None when absent) and lb, or None
\* when the line does not match.  The pattern is anchored at the start of
\* the line only.
Captures(l) ==
  LET n1 == RunOf(l, 1, XDigit)
      p == n1 + 1
      n2 == IF p + 1 <= Len(l) /\ l[p] = "." /\ l[p + 1] = "."
            THEN RunOf(l, p + 2, XDigit) ELSE 0
      range == n2 >= 4
      q == IF range THEN p + 2 + n2 ELSE p
      nw == IF q <= Len(l) /\ l[q] = ";" THEN RunOf(l, q + 1, WordChar) ELSE 0
  IN  IF n1 >= 4 /\ nw >= 2
      THEN <<[start |-> SubSeq(l, 1, n1),
              end |-> IF range THEN <<SubSeq(l, p + 2, p + 1 + n2)>> ELSE None,
              lb |-> SubSeq(l, q + 1, q + (IF nw > 3 THEN 3 ELSE nw))]>>
      ELSE None

HexValue(c) ==
  CASE c \in Digits -> CHOOSE v \in 0 .. 9 : ToString(v) = c
    [] c \in {"A", "a"} -> 10
    [] c \in {"B", "b"} -> 11
    [] c \in {"C", "c"} -> 12
    [] c \in {"D", "d"} -> 13
    [] c \in {"E", "e"} -> 14
    [] c \in {"F", "f"} -> 15

\* u32::from_str_radix(ds, 16), for the up to seven digits of the lines read
\* here.
RECURSIVE from_str_radix(_)
from_str_radix(ds) ==
  IF ds = <<>> THEN 0
  ELSE from_str_radix(SubSeq(ds, 1, Len(ds) - 1)) * 16 + HexValue(ds[Len(ds)])

\* .filter(|l| !(l.starts_with('#') || l.is_empty()))
Kept(l) == ~(l = <<>> \/ l[1] = "#")

\* The closure of flat_map on one line: the record (start, end, lb), or None
\* when captures(..).unwrap() or lb_class_by_key panics.
Record(l) ==
  LET caps == Captures(l)
  IN  IF caps = None THEN None
      ELSE LET start == from_str_radix(caps[1].start)
               end == IF caps[1].end = None THEN start ELSE from_str_radix(caps[1].end[1])
               lb == lb_class_by_key(caps[1].lb)
           IN  IF lb = None THEN None ELSE << <<start, end, lb[1]>> >>

\* The lines read one after the other until one panics: the records before
\* it and whether one panicked.
RECURSIVE ReadLines(_, _)
ReadLines(ls, d) ==
  IF ls = <<>> THEN [records |-> d, panicked |-> FALSE]
  ELSE IF ~Kept(ls[1]) THEN ReadLines(Tail(ls), d)
  ELSE LET r == Record(ls[1])
       IN  IF r = None THEN [records |-> d, panicked |-> TRUE]
           ELSE ReadLines(Tail(ls), Append(d, r[1]))

\* The lines of the data files read here.
LineLow == <<"0", "0", "0", "0", ".", ".", "0", "0", "7", "F", ";", "A", "L">>

LineHigh == <<"0", "0", "8", "0", ".", ".", "0", "0", "F", "F", ";", "C", "M", " ", "#", " ", "M", "n">>

LineNext == <<"0", "1", "0", "0", ";", "Z", "W", "J">>

LineComment == <<"#", " ", "L", "i", "n", "e", "B", "r", "e", "a", "k">>

LineEmpty == <<>>

\* three digits where the pattern asks for four
LineShortCode == <<"1", "0", "0", ";", "A", "L">>

\* a class code of one letter
LineShortClass == <<"0", "1", "0", "0", ";", "A">>

\* no separator
LineNoSeparator == <<"0", "1", "0", "0", " ", "A", "L">>

\* a class code lb_class_by_key does not know
LineUnknownClass == <<"0", "1", "0", "0", ";", "Z", "Z">>

SampleLines ==
  {LineLow, LineHigh, LineNext, LineComment, LineEmpty,
   LineShortCode, LineShortClass, LineNoSeparator, LineUnknownClass}

\* The data files: up to MaxLines lines, the records before the first line
\* that panics ascending as in LineBreak.txt.
LineFiles ==
  {f \in UNION {[1 .. n -> SampleLines] : n \in 0 .. MaxLines} :
     Ascending(ReadLines(f, <<>>).records)}

\* The numbers of states of a build script: the one of this rule list, the
\* largest the encoding has room for, and one more.
StateCounts == {NUM_CLASSES + NUM_EXTRA_STATES, 63, 64}

InitBuild ==
  /\ ScanInit
  /\ TextIdle
  /\ AuxIdle
  /\ data = <<>>
  /\ build = [should_continue |-> FALSE, pos |-> 0, page_count |-> 0]
  /\ PAGE_INDICES = <<>>
  /\ BREAK_PROP_DATA = <<>>
  /\ lookup = None
  /\ lines \in LineFiles
  /\ num_states \in StateCounts
  /\ tables_rs = None
  /\ exit = None

\* The page loop on the records d, for n iterations.
Pages(d, n) ==
  WhileLoop(d, n, [should_continue |-> TRUE, pos |-> 0, page_count |-> 0,
                   page_indices |-> <<>>, pages |-> <<>>])

\* main.  The assertion comes before tables.rs is created.  A line panics
\* when the page loop asks for the first value after the records before it:
\* the full pages of those records have been written, the page being filled
\* has not; the BufWriter is dropped as the panic unwinds and flushes what
\* was written to it.
Main ==
  /\ exit = None
  /\ IF num_states > 63
     THEN exit' = <<"panic">> /\ tables_rs' = None
     ELSE \E r \in {ReadLines(lines, <<>>)} :
            IF r.panicked
            THEN \E b \in {Pages(r.records, StreamLen(r.records) \div PAGE_LEN)} :
                   /\ exit' = <<"panic">>
                   /\ tables_rs' = <<[BREAK_PROP_DATA |-> b.pages, closed |-> FALSE,
                                      PAGE_INDICES |-> <<>>]>>
            ELSE \E b \in {Pages(r.records, StreamLen(r.records) \div PAGE_LEN + 1)} :
                   /\ exit' = <<"ok">>
                   /\ tables_rs' = <<[BREAK_PROP_DATA |-> b.pages, closed |-> TRUE,
                                      PAGE_INDICES |-> b.page_indices]>>
  /\ UNCHANGED <<data, build, PAGE_INDICES, BREAK_PROP_DATA, lookup, lines, num_states>>
  /\ UNCHANGED <<scanVars, textVars, auxVars>>

NextBuild == Main

SpecBuild == InitBuild /\ [][NextBuild]_vars

(***************************************************************************)
(* Properties of the scan.                                                 *)
(***************************************************************************)
\* The element fed last is a code point or the end of text (not the initial
\* state), and the one before it was a code point.
Stepped == pc \in {"chars", "once"} /\ item # None

AfterChar == Stepped /\ prev \in Classes

\* The scan has consumed the whole text.
AtEnd == pc \in {"once", "done"}

\* An opportunity was yielded for the element fed last.
YieldedHere == Stepped /\ opp.last # None /\ opp.last[1] = elem[1]

\* C1: once a non-empty text is consumed to its end, the last opportunity
\* yielded is (text length, Mandatory), whatever the classes were.
C1_TrailingMandatory ==
  (AtEnd /\ len > 0) => opp.last = <<len, "Mandatory">>

\* C1 witness: a text ending in a zero-width joiner was scanned to its end and
\* its last opportunity is the mandatory break at its length.
C1_Witness ==
  pc = "done" /\ len > 0 /\ prev = ZWJ /\ opp.last = <<len, "Mandatory">>

\* C2: every opportunity yielded has an offset above 0 and above the offset of
\* the opportunity yielded before it, and the offset is the start of a code
\* point of the text or, for the last element, the text length.
C2_Offsets ==
  [][opp'.n # opp.n =>
       /\ opp'.last[1] > 0
       /\ opp.last # None => opp'.last[1] > opp.last[1]
       /\ \/ opp'.last[1] \in starts'
          \/ pc' = "once" /\ opp'.last[1] = len']_vars

\* C2 witness: a text of several code points yielded one opportunity inside the
\* text, at the start of a code point, and then one at its end.
C2_Witness ==
  /\ pc = "done" /\ Cardinality(starts) >= 2
  /\ opp.n >= 2 /\ opp.last[1] = len

\* C3: the empty text yields nothing: the step from SOT on EOT reports neither
\* an allowed nor a mandatory break.
C3_EmptyText ==
  (AtEnd /\ len = 0) => (opp.n = 0 /\ opp.last = None /\ item = <<0, FALSE, FALSE>>)

\* C3 witness: the scan of the empty text has ended.
C3_Witness == pc = "done" /\ len = 0 /\ opp.n = 0

\* C4: linebreaks("a b \nc") is [(2, Allowed), (5, Mandatory), (6, Mandatory)]
\* and linebreaks("Hello world!") is [(6, Allowed), (12, Mandatory)].
C4_DocExamples ==
  result # None =>
    /\ s = DocText1 =>
         result[1] = << <<2, "Allowed">>, <<5, "Mandatory">>, <<6, "Mandatory">> >>
    /\ s = DocText2 =>
         result[1] = << <<6, "Allowed">>, <<12, "Mandatory">> >>

\* C4 witness: the first documented example has been scanned, with its result.
C4_Witness ==
  /\ s = DocText1
  /\ result = << << <<2, "Allowed">>, <<5, "Mandatory">>, <<6, "Mandatory">> >> >>

\* C5: when the code point before the element fed last is BK, LF or NL, or is
\* a CR and the element is not LF, a Mandatory opportunity is yielded at the
\* element's offset (the element being any code point or the end of text).
C5_HardBreaks ==
  (AfterChar /\ (prev \in {BK, LF, NL} \/ (prev = CR /\ elem[2] # LF)))
    => (opp.last = <<elem[1], "Mandatory">> /\ item = <<elem[1], TRUE, TRUE>>)

\* C5 witness: the third of three line feeds is read after breaks at 1 and 2.
C5_Witness ==
  /\ prev = LF /\ elem = <<2, LF>> /\ starts = {0, 1, 2}
  /\ opp = [n |-> 2, last |-> <<2, "Mandatory">>]

\* C6: after a ZWJ an opportunity is yielded exactly when the cell read has its
\* mandatory bit set, and it is then Mandatory, never Allowed; after any
\* other class an opportunity is yielded exactly when the allowed bit is set.
C6_JoinerSuppression ==
  AfterChar =>
    IF prev = ZWJ
    THEN /\ YieldedHere <=> HasBit(val, MANDATORY_BREAK_BIT)
         /\ YieldedHere => opp.last[2] = "Mandatory"
    ELSE YieldedHere <=> HasBit(val, ALLOWED_BREAK_BIT)

\* C6 witness: right after a ZWJ the cell allows a break that is not mandatory,
\* and nothing is yielded.
C6_Witness ==
  /\ AfterChar /\ prev = ZWJ
  /\ HasBit(val, ALLOWED_BREAK_BIT) /\ ~HasBit(val, MANDATORY_BREAK_BIT)
  /\ ~YieldedHere

(***************************************************************************)
(* Properties of the property table.                                       *)
(***************************************************************************)
\* The last code point of the 256-code-point block in which the data ends.
LastBlockEnd == (data[Len(data)][2] \div PAGE_LEN) * PAGE_LEN + (PAGE_LEN - 1)

Defined(r) == ~r.panic /\ ~r.undefined /\ r.class \in Classes

\* C7: once the tables are built, break_property returns a class, with every
\* index in bounds, for every code point up to the end of the block in which
\* the last record ends: for every code point in 0..=0x10FFFF when that is
\* the block 0x10FF00..0x10FFFF.
C7_TotalOnCodePoints ==
  Built =>
    /\ lookup = None => \A c \in 0 .. LastBlockEnd : Defined(break_property(c))
    /\ (lookup # None /\ lookup[1] <= LastBlockEnd) => Defined(lookup[2])

\* C7 witness: the data ends in the last block, at 0x10FFFD, and the last code
\* point, 0x10FFFF, has been looked up and has a class.
C7_Witness ==
  /\ Built /\ LastBlockEnd = CHAR_MAX /\ data[Len(data)][2] < CHAR_MAX
  /\ lookup # None /\ lookup[1] = CHAR_MAX /\ Defined(lookup[2])

\* C8: break_property never fails, whatever u32 it is given, and a value
\* above 0x10FFFF, which no record and no default rule maps, gets XX.
C8_TotalOnU32 ==
  (Built /\ lookup # None) =>
    /\ ~lookup[2].panic
    /\ lookup[1] > CHAR_MAX => (Defined(lookup[2]) /\ lookup[2].class = XX)

(***************************************************************************)
(* Properties of the scan, continued.                                      *)
(***************************************************************************)
\* C9: the scan of the text with any occurrences of SA, AI, SG, XX replaced by
\* AL and of CJ by NS yields, for every element, what the scan of the text
\* itself yields.
C9_Resolution ==
  Stepped => resolved.yield = FilterMap(item)

\* C9 witness: an unresolved class was replaced, in the middle of a text, and
\* both scans yield an opportunity there.
C9_Witness ==
  /\ Stepped /\ resolved.cls # elem[2] /\ elem[1] > 0
  /\ YieldedHere /\ resolved.yield = opp.last

\* Every cell of the compiled table: the next state is a row of the table and
\* the cell is a u8 whose low six bits are that state.
TableInRange ==
  /\ NUM_CLASSES + NUM_EXTRA_STATES <= 63
  /\ \A r \in DOMAIN PAIR_TABLE : \A c \in DOMAIN PAIR_TABLE[r] :
       /\ PAIR_TABLE[r][c] \in 0 .. 255
       /\ ClearBreakBits(PAIR_TABLE[r][c]) < NUM_CLASSES + NUM_EXTRA_STATES

\* C10: no step of the scan indexes the pair table out of bounds: the row is
\* one of the 53 rows, the column is a class or EOT, and every cell's next
\* state is a row.
C10_ScanCannotFail ==
  /\ pc # "panic"
  /\ state[1] \in 0 .. (NUM_CLASSES + NUM_EXTRA_STATES - 1)
  /\ state[1] \in DOMAIN PAIR_TABLE
  /\ Stepped => elem[2] \in 0 .. NUM_CLASSES
  /\ TableInRange

\* C10 witness: the scan is in the last row of the table, a synthetic state.
C10_Witness ==
  Stepped /\ state[1] = NUM_CLASSES + NUM_EXTRA_STATES - 1 /\ elem[2] = RI

(***************************************************************************)
(* Properties of iterators side by side.                                   *)
(***************************************************************************)
\* The elements iterator `it` has pulled so far.
Fed(it) == it.pos + (IF it.phase \in {"once", "done"} THEN 1 ELSE 0)

\* What a scan of the text of `it`, run alone, yields for those elements.
Alone(it) == ScanFilter(<<SOT, FALSE>>, SubSeq(Chain(it.text), 1, Fed(it)))

\* C11: however the steps of the iterators interleave, and whether or not
\* some are dropped part-way, each iterator has yielded exactly what a scan of
\* its text alone yields for the elements it has pulled (all of
\* linebreaks(text) once it is exhausted), and no step changes the property
\* table.
C11_Independent ==
  /\ [](\A i \in DOMAIN iters :
          /\ iters[i].out = Alone(iters[i])
          /\ iters[i].phase = "done" => iters[i].out = linebreaks(iters[i].text))
  /\ [][UNCHANGED <<PAGE_INDICES, BREAK_PROP_DATA>>]_vars

\* C11 witness: two iterators over the same text "a b"; the first was dropped
\* after one code point, the second ran to its end and yielded both
\* opportunities.
C11_Witness ==
  /\ iters # <<>>
  /\ iters[1].text = <<Letter, Space, Letter>> /\ iters[2].text = iters[1].text
  /\ iters[1].phase = "dropped" /\ iters[1].pos = 1
  /\ iters[2].phase = "done"
  /\ iters[2].out = << <<2, "Allowed">>, <<3, "Mandatory">> >>

(***************************************************************************)
(* Properties of the rule compiler.                                        *)
(***************************************************************************)
\* Every loop has run.
Compiled == rest = Len(RULES) + 1 /\ pending = <<>>

\* Rule r writes cell (i, j).
Writes(r, i, j) ==
  IF r.kind = "treat"
  THEN i \in r.first \/ (j \in r.first /\ r.cls < NUM_STATES)
  ELSE i \in r.first /\ j \in r.second

\* The cell v shows the decision of the operator: no break for 'x', a break
\* that is not mandatory for '/', a mandatory break for '!'.
Decides(operator, v) ==
  CASE operator = "x" -> ~HasBit(v, ALLOWED_BREAK_BIT) /\ ~HasBit(v, MANDATORY_BREAK_BIT)
    [] operator = "/" -> HasBit(v, ALLOWED_BREAK_BIT) /\ ~HasBit(v, MANDATORY_BREAK_BIT)
    [] operator = "!" -> HasBit(v, ALLOWED_BREAK_BIT) /\ HasBit(v, MANDATORY_BREAK_BIT)

\* The rules that write cell (i, j), by their place in the list.
Writers(i, j) == {k \in 1 .. Len(RULES) : Writes(RULES[k], i, j)}

Earliest(S) == CHOOSE k \in S : \A l \in S : k <= l

Latest(S) == CHOOSE k \in S : \A l \in S : k >= l

\* C13 as claimed: the loops run in the order in which the rules are declared,
\* and in the final table a cell whose last-declared writer is an operator
\* rule shows that rule's decision.
C13_DeclaredOrderLastWins ==
  /\ \A k \in 2 .. Len(ran) : ran[k] > ran[k - 1]
  /\ Compiled =>
       \A i \in Rows, j \in Cols :
         LET w == Writers(i, j)
         IN  (w # {} /\ RULES[Latest(w)].kind = "op")
               => Decides(RULES[Latest(w)].operator, pair_table[i][j])

\* C13 amended: the loops run in the reverse of the declared order, the last
\* declared rule first, each rule once; in the final table, which is the
\* PAIR_TABLE the scanner reads, a cell whose first-declared writer is an
\* operator rule shows that rule's decision.
C13_ReverseOrderFirstWins ==
  /\ \A k \in 1 .. Len(ran) : ran[k] = Len(RULES) + 1 - k
  /\ Compiled =>
       /\ pair_table = PAIR_TABLE
       /\ \A i \in Rows, j \in Cols :
            LET w == Writers(i, j)
            IN  (w # {} /\ RULES[Earliest(w)].kind = "op")
                  => Decides(RULES[Earliest(w)].operator, pair_table[i][j])

\* C13 witness: the table is complete; the cell read at the end of an empty
\* text, written by `sot x` (declared first) and by `! eot` (declared after
\* it), has no break.
C13_Witness ==
  /\ Compiled /\ Len(ran) = Len(RULES) /\ ran[1] = Len(RULES)
  /\ {3, 4} \subseteq Writers(sot, eot)
  /\ RULES[3].operator = "x" /\ RULES[4].operator = "!"
  /\ pair_table[sot][eot] = eot

(***************************************************************************)
(* Properties of runs of code points.                                      *)
(***************************************************************************)
\* A code point was read last (not the end of text).
ReadChar == Stepped /\ elem[2] \in Classes /\ run # <<>>

\* The element fed last yielded an Allowed opportunity at its offset.
AllowedHere == item[2] /\ ~item[3] /\ opp.last = <<elem[1], "Allowed">>

\* C14 (LB9): a CM or ZWJ in the run directly following a code point whose
\* class is none of BK, CR, LF, NL, SP, ZW yields no opportunity at its offset
\* and leaves the scanner in the row reached after that base code point.
C14_CombiningRun ==
  (ReadChar /\ run.mark) => (~item[2] /\ run.base = <<state[1]>>)

\* C14 witness: HL HY ZWJ CM; the scanner is still in the row HLHYBA reached
\* after the hyphen.
C14_Witness ==
  /\ ReadChar /\ run.mark /\ elem = <<3, CM>> /\ prev = ZWJ
  /\ run.base = <<HLHYBA>> /\ state = <<HLHYBA, FALSE>> /\ ~item[2]

\* C15 (LB14): after an OP and zero or more SP no opportunity is reported
\* before the next code point, whatever its class and whatever came before
\* the OP; through the OP and the spaces the scanner is in row OP or OPSP.
C15_AfterOpen ==
  /\ (ReadChar /\ run.afterOp) => ~item[2]
  /\ (ReadChar /\ run.op) => state[1] = (IF elem[2] = OP THEN OP ELSE OPSP)

\* C15 witness: ZW OP SP ID; the only opportunity is the one before the OP.
C15_Witness ==
  /\ ReadChar /\ run.afterOp /\ elem = <<3, ID>> /\ prev = SP
  /\ ~item[2] /\ opp = [n |-> 1, last |-> <<1, "Allowed">>]

\* C16 (LB8): after a ZW and zero or more SP an Allowed opportunity is
\* reported before the next code point of every class other than BK, CR, LF,
\* NL, SP and ZW, whatever came before the ZW.
C16_AfterZeroWidthSpace ==
  (ReadChar /\ run.afterZw /\ elem[2] \notin NoBase) => AllowedHere

\* C16 witness: ZWJ ZW SP CL; an opportunity before the closing punctuation.
C16_Witness ==
  /\ ReadChar /\ run.afterZw /\ elem = <<3, CL>> /\ prev = SP /\ starts = {0, 1, 2, 3}
  /\ AllowedHere /\ opp.n = 1

\* C17 as claimed: in a run of directly consecutive RI, started at the start
\* of text or after any code point that is not RI, an Allowed opportunity is
\* reported between the k-th and the (k+1)-th RI if and only if k is even.
C17_DirectRunParity ==
  (ReadChar /\ elem[2] = RI /\ run.rid >= 2) => (item[2] <=> (run.rid - 1) % 2 = 0)

\* C17 amended: in a run of RI code points in which the CM and ZWJ that follow
\* an RI are passed over, an Allowed opportunity is reported between the k-th
\* and the (k+1)-th RI if and only if k is even and the (k+1)-th RI does not
\* directly follow a ZWJ; otherwise no opportunity is reported there.
C17_RunParity ==
  (ReadChar /\ elem[2] = RI /\ run.ri >= 2) =>
     /\ item[2] <=> ((run.ri - 1) % 2 = 0 /\ prev # ZWJ)
     /\ item[2] => AllowedHere

\* C17 witness: RI CM RI RI; the opportunity between the second and the third
\* RI, the mark passed over.
C17_Witness ==
  /\ ReadChar /\ elem = <<3, RI>> /\ prev = RI /\ run.ri = 3 /\ run.rid = 2
  /\ AllowedHere /\ opp.n = 1

\* C18: no opportunity is reported between a CR and the LF directly after it,
\* whatever came before; exactly one opportunity comes of the pair, a
\* Mandatory one at the offset where the LF ends.
C18_CrLf ==
  /\ (Stepped /\ run # <<>> /\ run.crlf) => (~item[2] /\ opp.n = run.crn)
  /\ (Stepped /\ run # <<>> /\ run.afterCrLf) =>
        (item[2] /\ item[3] /\ opp = [n |-> run.crn + 1, last |-> <<run.at, "Mandatory">>])

\* C18 witness: ZW CR LF AL; the one opportunity is the Mandatory one after
\* the LF.
C18_Witness ==
  /\ ReadChar /\ run.afterCrLf /\ elem = <<3, AL>> /\ prev = LF /\ starts = {0, 1, 2, 3}
  /\ run.at = 3 /\ opp = [n |-> 1, last |-> <<3, "Mandatory">>]

(***************************************************************************)
(* Properties of is_safe_pair.                                             *)
(***************************************************************************)
\* The cell read on b from the state reached by consuming a in row r.
CellAfter(r, a, b) == PAIR_TABLE[ClearBreakBits(PAIR_TABLE[r][a])][b]

\* C19: is_safe_pair(a, b) is true exactly when the cell read on b from the
\* state reached by consuming a is the same value, next state and both flags,
\* for every predecessor row of the pair table.
C19_SafePair ==
  safe # None =>
    (safe[1] <=> \A r1, r2 \in Rows :
                   CellAfter(r1, pair[1], pair[2]) = CellAfter(r2, pair[1], pair[2]))

\* C19 witness: (SP, AL) is not safe: after a space the scanner may be in row
\* SP or in row OPSP, and the transitions on AL lead to the same row with
\* different flags.
C19_Witness ==
  /\ pair = <<SP, AL>> /\ safe = <<FALSE>>
  /\ CellAfter(AL, SP, AL) = AL + ALLOWED_BREAK_BIT
  /\ CellAfter(OP, SP, AL) = AL

(***************************************************************************)
(* Properties of the paged lookup against the interval data.               *)
(***************************************************************************)
\* The class the interval data give a code point: the class of the record
\* that contains it or, in a gap, ID, PR or XX by the default ranges.
IntervalClass(d, c) ==
  IF \E r \in 1 .. Len(d) : d[r][1] <= c /\ c <= d[r][2]
  THEN d[CHOOSE r \in 1 .. Len(d) : d[r][1] <= c /\ c <= d[r][2]][3]
  ELSE IF \/ c \in 13312 .. 19903 \/ c \in 19968 .. 40959 \/ c \in 63744 .. 64255
          \/ c \in 131072 .. 196605 \/ c \in 196608 .. 262141
          \/ c \in 126976 .. 131069
       THEN ID
  ELSE IF c \in 8352 .. 8399 THEN PR
  ELSE XX

\* The pages compared code point by code point: the first three, the pages
\* at both edges of every default range, the last one.
SamplePages ==
  {0, 1, 2, 32, 51, 52, 77, 78, 159, 160, 248, 249, 250, 251,
   495, 496, 511, 512, 767, 768, 1023, 1024, 4351}

Samples == {p * PAGE_LEN + k : p \in SamplePages, k \in 0 .. (PAGE_LEN - 1)}

\* The lookup returned, without failing, the class c.
Returns(r, c) == ~r.panic /\ ~r.undefined /\ r.class = c

\* C20: for ascending records that do not overlap, break_property(c) is, for
\* every code point c from 0 to the end of the last record, the class of the
\* record containing c or, in a gap, the default class (ID or PR in the
\* default ranges, XX elsewhere), whether the page of c was written out or
\* collapsed to a tagged index.
C20_LookupEqualsIntervals ==
  (Built /\ Ascending(data)) =>
    /\ lookup = None =>
         \A c \in Samples :
           c < StreamLen(data) => Returns(break_property(c), IntervalClass(data, c))
    /\ (lookup # None /\ lookup[1] < StreamLen(data)) =>
         Returns(lookup[2], IntervalClass(data, lookup[1]))

\* C20 witness: the tables of a file that reaches 0x10FFFD; 0x20A0 in the
\* gap is PR from a page written out, 0x4E00 is ID from a collapsed page,
\* 0x20D0 is XX, and the record at the end has been looked up.
C20_Witness ==
  /\ Built /\ data = FullFile
  /\ lookup # None /\ lookup[1] = 1114109 /\ Returns(lookup[2], AL)
  /\ ~HasBit(PAGE_INDICES[32 + 1], UNIFORM_PAGE)
  /\ Returns(break_property(8352), PR)
  /\ PAGE_INDICES[78 + 1] = UNIFORM_PAGE + ID
  /\ Returns(break_property(19968), ID)
  /\ Returns(break_property(8400), XX)

(***************************************************************************)
(* Properties of the last page.                                            *)
(***************************************************************************)
\* C21: a code point after the end of the last record and inside the
\* 256-code-point block in which that record ends resolves to XX (Unknown),
\* whether the recorded entries of the block differ or are all of one class.
C21_TailOfLastBlock ==
  (Built /\ lookup # None /\ lookup[1] >= StreamLen(data) /\ lookup[1] <= LastBlockEnd)
    => Returns(lookup[2], XX)

(***************************************************************************)
(* Properties of the flags during table construction.                      *)
(***************************************************************************)
\* C24: after every loop of the rule compiler, and in the final pair table,
\* every cell with the mandatory-break bit set has the allowed-break bit set
\* too, so the scanner's test of the allowed bit passes every mandatory break.
C24_MandatoryImpliesAllowed ==
  /\ pair_table # <<>> =>
       \A i \in Rows, j \in Cols :
         HasBit(pair_table[i][j], MANDATORY_BREAK_BIT)
           => HasBit(pair_table[i][j], ALLOWED_BREAK_BIT)
  /\ Compiled => pair_table = PAIR_TABLE

\* C24 witness: the loop of `CR !` has run and the loop of `CR x LF`, declared
\* before it, has not: the cell of CR LF has both bits.
C24_Witness ==
  /\ ran # <<>> /\ ~Compiled
  /\ RULES[ran[Len(ran)]].kind = "op" /\ RULES[ran[Len(ran)]].operator = "!"
  /\ RULES[ran[Len(ran)]].first = {CR}
  /\ pair_table[CR][LF] = LF + ALLOWED_BREAK_BIT + MANDATORY_BREAK_BIT

(***************************************************************************)
(* Properties of one iterator pulled to its end.                           *)
(***************************************************************************)
\* The offsets of the opportunities grow strictly.
OffsetsGrow(out) == \A k \in 2 .. Len(out) : out[k][1] > out[k - 1][1]

\* C23: for a text of n code points the scan consumes exactly n + 1 elements,
\* the n code points and the end-of-text element, then returns None and
\* takes no further step; it yields at most n opportunities, at most one for
\* each offset.
C23_Finite ==
  /\ [](\A i \in DOMAIN iters :
          LET it == iters[i]
              n == Len(it.text)
          IN  /\ Fed(it) <= n + 1
              /\ it.phase = "done" => Fed(it) = n + 1
              /\ Len(it.out) <= n
              /\ Fed(it) > 0 => Len(it.out) <= Fed(it) - 1
              /\ OffsetsGrow(it.out))
  /\ [][iters # <<>> /\ iters[1].phase # "done"]_vars
  /\ <>(iters # <<>> /\ iters[1].phase = "done")

\* C23 witness: three line feeds; four elements consumed, three
\* opportunities yielded, one after each line feed.
C23_Witness ==
  /\ iters # <<>> /\ iters[1].text = <<LineFeed, LineFeed, LineFeed>>
  /\ iters[1].phase = "done" /\ Fed(iters[1]) = 4
  /\ iters[1].out = << <<1, "Mandatory">>, <<2, "Mandatory">>, <<3, "Mandatory">> >>

(***************************************************************************)
(* Properties of texts with a common beginning.                            *)
(***************************************************************************)
\* The number of code points on which two texts agree from the start.
RECURSIVE Common(_, _)
Common(t1, t2) ==
  IF t1 = <<>> \/ t2 = <<>> \/ t1[1] # t2[1] THEN 0
  ELSE 1 + Common(Tail(t1), Tail(t2))

\* The byte offset at which the k-th code point of t starts.
Off(t, k) == StrLen(SubSeq(t, 1, k - 1))

\* The opportunities of `out` at offsets up to o.
RECURSIVE UpTo(_, _)
UpTo(out, o) ==
  IF out = <<>> \/ out[1][1] > o THEN <<>> ELSE <<out[1]>> \o UpTo(Tail(out), o)

\* C26: two texts that agree on all code points up to and including the one
\* that starts at byte offset i get the same opportunities, offsets and
\* kinds, at all offsets <= i; and what an iterator has yielded up to the
\* code point it has read never changes as it reads on.
C26_PrefixStable ==
  /\ [](iters # <<>> =>
          \A k \in 1 .. Common(iters[1].text, iters[2].text) :
            LET o == Off(iters[1].text, k)
            IN  /\ (Fed(iters[1]) >= k /\ Fed(iters[2]) >= k)
                      => UpTo(iters[1].out, o) = UpTo(iters[2].out, o)
                /\ (iters[1].phase = "done" /\ iters[2].phase = "done")
                      => UpTo(linebreaks(iters[1].text), o) = UpTo(linebreaks(iters[2].text), o))
  /\ [][iters # <<>> =>
          \A i \in DOMAIN iters : \A k \in 1 .. Len(iters[i].text) :
            Fed(iters[i]) >= k =>
              UpTo(iters'[i].out, Off(iters[i].text, k)) = UpTo(iters[i].out, Off(iters[i].text, k))]_vars

\* C26 witness: " a " and " a" scanned to the end; both have the opportunity
\* before the letter, at offset 1, and differ after it.
C26_Witness ==
  /\ iters # <<>>
  /\ iters[1].text = <<Space, Letter, Space>> /\ iters[2].text = <<Space, Letter>>
  /\ iters[1].phase = "done" /\ iters[2].phase = "done"
  /\ iters[1].out = << <<1, "Allowed">>, <<3, "Mandatory">> >>
  /\ iters[2].out = << <<1, "Allowed">>, <<2, "Mandatory">> >>
  /\ UpTo(iters[1].out, 1) = << <<1, "Allowed">> >>

(***************************************************************************)
(* Properties of a scan started anew at a safe pair.                       *)
(***************************************************************************)
\* The opportunities of `out` at offsets from o on, each moved by d.
RECURSIVE FromOn(_, _, _)
FromOn(out, o, d) ==
  IF out = <<>> THEN <<>>
  ELSE (IF out[1][1] >= o THEN << <<out[1][1] + d, out[1][2]>> >> ELSE <<>>)
         \o FromOn(Tail(out), o, d)

\* C25: when the classes a and b of two adjacent code points make a safe
\* pair, the scan of the text from the a code point on reports, from the
\* offset of the b code point on, exactly the opportunities that the scan of
\* the whole text reports there, the offsets moved by the start of the a code
\* point and the kinds the same.
C25_SafeRestart ==
  (result # None /\ cut # None /\ safe = <<TRUE>>) =>
    LET start == Off(s, cut[1])
    IN  FromOn(result[1], Off(s, cut[1] + 1), 0)
          = FromOn(result[2], Off(s, cut[1] + 1) - start, start)

\* C25 witness: OP SP QU AL AL cut at the QU; (QU, AL) is a safe pair, and
\* both scans report no opportunity before the first AL, and agree after it.
C25_Witness ==
  /\ result # None /\ safe = <<TRUE>> /\ pair = <<QU, AL>> /\ cut = <<3>>
  /\ s = <<CodePoint(OP), CodePoint(SP), CodePoint(QU), CodePoint(AL), CodePoint(AL)>>
  /\ Len(result[1]) = Len(result[2])

(***************************************************************************)
(* Properties of a build that fails.                                       *)
(***************************************************************************)
\* The lines that do not match the record format or name no class.
Faulty == {LineShortCode, LineShortClass, LineNoSeparator, LineUnknownClass}

HasFaulty(f) == \E k \in 1 .. Len(f) : f[k] \in Faulty

\* C22 as claimed: when main aborts, on a line that does not match, on an
\* unknown class code or on too many states, no output has been produced,
\* complete or partial.
C22_NoOutputOnFailure ==
  exit = <<"panic">> => tables_rs = None

\* C22 amended: each of the three failures aborts the build, and a build that
\* aborts leaves no complete table: with too many states tables.rs is not
\* created; with a faulty line tables.rs exists and holds at most the opening
\* of BREAK_PROP_DATA and the full pages of the records before that line,
\* never its closing bracket, PAGE_INDICES, the pair table or is_safe_pair.
C22_FatalAndIncomplete ==
  exit # None =>
    /\ exit = <<"panic">> <=> (num_states > 63 \/ HasFaulty(lines))
    /\ num_states > 63 => tables_rs = None
    /\ (exit = <<"panic">> /\ num_states <= 63) =>
         /\ tables_rs # None
         /\ ~tables_rs[1].closed
         /\ tables_rs[1].PAGE_INDICES = <<>>
         /\ Len(tables_rs[1].BREAK_PROP_DATA)
              <= StreamLen(ReadLines(lines, <<>>).records) \div PAGE_LEN
    /\ exit = <<"ok">> => (tables_rs # None /\ tables_rs[1].closed)

\* C22 witness: 0000..007F;AL, 0080..00FF;CM, then a line with an unknown
\* class code: main has panicked and tables.rs holds the page of the first
\* 256 code points, without its end.
C22_Witness ==
  /\ exit = <<"panic">>
  /\ lines = <<LineLow, LineHigh, LineUnknownClass>>
  /\ tables_rs # None
  /\ Len(tables_rs[1].BREAK_PROP_DATA) = 1
  /\ tables_rs[1].BREAK_PROP_DATA[1][1] = AL
  /\ tables_rs[1].BREAK_PROP_DATA[1][PAGE_LEN] = CM
  /\ ~tables_rs[1].closed

====
